---- MODULE Spec2Model ----
(***************************************************************************)
(* knife4g: an http.Handler that serves an OpenAPI document to the knife4j *)
(* UI.  Two converters live in the repository:                             *)
(*   - convertToSwagger / buildReqParameterTree, over the loosely typed    *)
(*     map[string]interface{} document (src/unnamed/part_000);             *)
(*   - convertToOpenAPI3 and its helpers, over the typed OpenAPI3 document *)
(*     (src/knife4g.go), behind Handler / Knife4jServer.                   *)
(* Go strings that the code slices or lower-cases are sequences of         *)
(* one-character strings; a Go map is a function whose DOMAIN is its key   *)
(* set; ranging over a Go map visits its keys in an unspecified order, so  *)
(* every such loop picks its next key nondeterministically.                *)
(***************************************************************************)
EXTENDS Integers, Sequences, FiniteSets, TLC

\* Goroutine stack limit, in frames of buildReqParameterTree.
MaxDepth == 4
\* How many times the caller converts the same document.
NumRuns == 2

EmptyMap == <<>>

(***************************************************************************)
(* Strings                                                                 *)
(***************************************************************************)
RECURSIVE LastIndex(_, _)
\* strings.LastIndex, 1-based: 0 when c does not occur (Go: -1).
LastIndex(s, c) ==
    IF Len(s) = 0 THEN 0
    ELSE IF s[Len(s)] = c THEN Len(s)
    ELSE LastIndex(SubSeq(s, 1, Len(s) - 1), c)

RECURSIVE Index(_, _)
\* strings.Index, 1-based: 0 when c does not occur.
Index(s, c) ==
    IF Len(s) = 0 THEN 0
    ELSE IF s[1] = c THEN 1
    ELSE IF Index(Tail(s), c) = 0 THEN 0
    ELSE 1 + Index(Tail(s), c)

\* Mutant of RefName: cuts after the first "/" instead of the last.
RefNameAfterFirstSlash(ref) == SubSeq(ref, Index(ref, "/") + 1, Len(ref))

\* ref[strings.LastIndex(ref, "/")+1:]
RefName(ref) == SubSeq(ref, LastIndex(ref, "/") + 1, Len(ref))

ToLowerChar(c) ==
    CASE c = "A" -> "a"
      [] c = "B" -> "b"
      [] c = "M" -> "m"
      [] OTHER -> c

\* strings.ToLower
ToLower(s) == [i \in 1..Len(s) |-> ToLowerChar(s[i])]

(***************************************************************************)
(* interface{} values: a YAML scalar is wrapped as a one-key function, so  *)
(* the type assertion v.(map[string]interface{}) is IsMap(v).              *)
(***************************************************************************)
Scalar == [scalar |-> "x"]
IsMap(v) == "scalar" \notin DOMAIN v
HasKey(m, k) == k \in DOMAIN m
\* v, ok := m[k].(map[string]interface{}): ok
HasMapAt(m, k) == HasKey(m, k) /\ IsMap(m[k])

(***************************************************************************)
(* Input documents (the YAML the host application hands to the handler).   *)
(* "#/s/A" stands for "#/components/schemas/A".                            *)
(***************************************************************************)
NameA == <<"A">>
NameB == <<"B">>
RefA == <<"#", "/", "s", "/", "A">>
RefB == <<"B">>
RefMissing == <<"#", "/", "s", "/", "M">>
PropA == <<"a">>
PropB == <<"b">>

PlainProp == ("type" :> <<"s", "t", "r">>) @@ ("description" :> <<"d">>)
RefProp(r) == ("$ref" :> r) @@ ("type" :> <<"o">>)
PropValues == {PlainProp, RefProp(RefA), RefProp(RefB), RefProp(RefMissing), Scalar}

PropMaps ==
    {EmptyMap}
      \cup {PropA :> p : p \in PropValues}
      \cup {(PropA :> p) @@ (PropB :> q) : p \in PropValues, q \in {PlainProp, RefProp(RefB)}}

RequiredLists == {<<PropA>>, <<PropB, PropA>>}

\* Schemas the model puts under the name A.
ModelsA ==
    {EmptyMap}
      \cup {("properties" :> ps) : ps \in PropMaps}
      \cup {("properties" :> ps) @@ ("required" :> rs) : ps \in PropMaps, rs \in RequiredLists}

\* Schemas the model puts under the name B.
ModelsB ==
    { EmptyMap,
      ("properties" :> (PropA :> PlainProp)) @@ ("required" :> <<PropA>>),
      ("properties" :> (PropA :> RefProp(RefA))),
      ("properties" :> (PropB :> RefProp(RefMissing))) @@ ("required" :> <<PropB>>) }

SchemaMaps ==
    {EmptyMap}
      \cup {NameA :> a : a \in ModelsA}
      \cup {(NameA :> a) @@ (NameB :> b) : a \in ModelsA, b \in ModelsB}

\* openapi.Components: with or without a "schemas" map.
ComponentsValues == {EmptyMap} \cup {("schemas" :> s) : s \in SchemaMaps}

BodySchemas == {PlainProp, RefProp(RefA), RefProp(RefB), RefProp(RefMissing)}

ContentValues ==
    {("json" :> ("schema" :> s)) : s \in BodySchemas}
      \cup {("json" :> ("schema" :> RefProp(RefA))) @@ ("xml" :> ("schema" :> s)) :
               s \in {PlainProp, RefProp(RefB)}}

BaseOp == ("summary" :> <<"w">>)

OpValues ==
    {BaseOp, Scalar}
      \cup {BaseOp @@ ("requestBody" :> (("required" :> TRUE) @@ ("content" :> c))) :
               c \in ContentValues}

PathsValues ==
    {EmptyMap, ("/w" :> Scalar)} \cup {("/w" :> ("post" :> op)) : op \in OpValues}

\* The OpenAPI struct of part_000 after yaml.Unmarshal.
Documents ==
    [ OpenAPI : {<<"3">>},
      Info : {("title" :> <<"t">>)},
      Tags : {<<>>},
      Components : ComponentsValues,
      Paths : PathsValues ]

(***************************************************************************)
(* State                                                                   *)
(***************************************************************************)
VARIABLES
    doc,          \* the OpenAPI document convertToSwagger is handed (maps are shared, so it can change)
    loaded,       \* the document as yaml.Unmarshal produced it
    run,          \* requests of the docYaml route answered
    pc,           \* "idle", "paths", "methods", "content", "tree", "crashed"; "unused" in a run of the server
    swagger,      \* the result map under construction
    outs,         \* the JSON documents returned so far, one per conversion
    paths,        \* local paths
    pathsTodo,    \* keys of openapi.Paths not yet ranged over
    curPath,
    newPathItem,  \* local newPathItem
    methodsTodo,  \* keys of pathItem not yet ranged over
    curMethod,
    contentTodo,  \* keys of content not yet ranged over
    stack,        \* the activation records of buildReqParameterTree
    OpenApiContent,  \* config.OpenApiContent: whether it is well-formed YAML, and its servers (part_000)
    statuses,     \* the status of each answer of the docYaml route so far (part_000)
    config,       \* the *Config shared by the host, the server and every request (knife4g.go)
    constructed,  \* Handler(config) has returned
    built,        \* config as it stood when Handler returned
    reqs          \* the requests: where each is in the handler, and its response

convVars == << doc, loaded, run, pc, swagger, outs, paths, pathsTodo, curPath,
               newPathItem, methodsTodo, curMethod, contentTodo, stack, OpenApiContent, statuses >>
srvVars == << config, constructed, built, reqs >>
vars == << convVars, srvVars >>

\* if s, ok := openapi.Components["schemas"].(map[string]interface{}); ok
\* (whenever the inputs hold a "schemas" key, its value is a mapping)
SchemasOk(d) == HasKey(d.Components, "schemas")
\* the local schemas: nil unless the assertion succeeded; a nil map has no entries
Schemas(d) == IF SchemasOk(d) THEN d.Components["schemas"] ELSE EmptyMap

DefaultServers ==
    << [url |-> "http://localhost:8000", description |-> "Inferred Url"] >>

\* The head of convertToSwagger, up to the loop over the paths.
SwaggerHead(d) ==
    [ openapi |-> d.OpenAPI,
      info |-> d.Info,
      tags |-> d.Tags,
      servers |-> DefaultServers,
      components |-> IF SchemasOk(d) THEN ("schemas" :> Schemas(d)) ELSE EmptyMap ]

(***************************************************************************)
(* buildReqParameterTree                                                   *)
(***************************************************************************)
\* props, ok := model["properties"].(map[string]interface{})
\* (whenever the inputs hold a "properties" key, its value is a mapping)
Properties(model) ==
    IF HasKey(model, "properties") THEN model["properties"] ELSE EmptyMap

\* Mutant of RequiredFields: the loop stops after the first entry.
RequiredFieldsFirstOnly(model) ==
    IF HasKey(model, "required") /\ Len(model["required"]) > 0
    THEN {model["required"][1]}
    ELSE {}

\* requiredFields: the strings of model["required"]
RequiredFields(model) ==
    IF HasKey(model, "required")
    THEN {model["required"][i] : i \in 1..Len(model["required"])}
    ELSE {}

ChildType(propMap) == IF HasKey(propMap, "type") THEN propMap["type"] ELSE <<>>
ChildDesc(propMap) ==
    IF HasKey(propMap, "description") THEN propMap["description"] ELSE <<>>
ChildSchemaValue(propMap) ==
    IF HasKey(propMap, "$ref") THEN RefName(propMap["$ref"]) ELSE <<>>

\* schemas[name].(map[string]interface{}) succeeded
Resolves(d, name) ==
    SchemasOk(d) /\ HasKey(Schemas(d), name) /\ IsMap(Schemas(d)[name])

\* Mutant of ChildModel: the nil check on schemas is inverted, so no reference
\* is ever looked up in a document that has schemas.
ChildModelNilCheckInverted(d, propMap) ==
    IF ChildSchemaValue(propMap) # <<>> /\ ~SchemasOk(d) /\ Resolves(d, ChildSchemaValue(propMap))
    THEN Schemas(d)[ChildSchemaValue(propMap)]
    ELSE EmptyMap

ChildModel(d, propMap) ==
    IF ChildSchemaValue(propMap) # <<>> /\ Resolves(d, ChildSchemaValue(propMap))
    THEN Schemas(d)[ChildSchemaValue(propMap)]
    ELSE EmptyMap

\* One activation of buildReqParameterTree: param before "children" is set,
\* the model, the properties still to range over and the children so far.
Frame(name, description, schemaType, schemaValue, required, in, model) ==
    [ name |-> name,
      description |-> description,
      type |-> schemaType,
      schemaValue |-> schemaValue,
      in |-> in,
      require |-> required,
      model |-> model,
      todo |-> DOMAIN Properties(model),
      children |-> <<>> ]

\* param["children"] = children; return param
Param(f) ==
    [ name |-> f.name,
      description |-> f.description,
      type |-> f.type,
      schemaValue |-> f.schemaValue,
      in |-> f.in,
      require |-> f.require,
      children |-> f.children ]

(***************************************************************************)
(* convertToSwagger, called NumRuns times on the same document.            *)
(***************************************************************************)
Nil == <<>>
Ptr(v) == <<v>>
IsNil(p) == Len(p) = 0
Deref(p) == p[1]

\* The zero Config.
ZeroConfig == [RelativePath |-> <<>>, ServerName |-> "", OpenAPI |-> Nil, SwagResources |-> Nil]

\* The bytes of config.OpenApiContent: well-formed YAML or not, and the
\* servers the YAML declares.  The OpenAPI struct has no field for servers, so
\* yaml.Unmarshal leaves them out of the document.
YamlContent(wellFormed, servers) == [wellFormed |-> wellFormed, servers |-> servers]

\* A servers list declared in the YAML.
DeclaredServers == << [url |-> "https://a", description |-> "first"] >>

\* var openapi OpenAPI, before yaml.Unmarshal has filled it.
ZeroOpenAPI ==
    [OpenAPI |-> <<>>, Info |-> EmptyMap, Tags |-> <<>>, Components |-> EmptyMap, Paths |-> EmptyMap]

\* The server of knife4g.go does not take part in a run of convertToSwagger.
ServerUnused ==
    /\ config = ZeroConfig
    /\ constructed = FALSE
    /\ built = ZeroConfig
    /\ reqs = <<>>

Init ==
    /\ ServerUnused
    /\ \/ OpenApiContent = YamlContent(TRUE, <<>>) /\ doc \in Documents
       \/ OpenApiContent = YamlContent(TRUE, DeclaredServers)
            /\ doc \in {d \in Documents : d.Components = EmptyMap}
       \/ OpenApiContent = YamlContent(FALSE, <<>>) /\ doc = ZeroOpenAPI
    /\ statuses = <<>>
    /\ loaded = doc
    /\ run = 0
    /\ pc = "idle"
    /\ swagger = EmptyMap
    /\ outs = <<>>
    /\ paths = EmptyMap
    /\ pathsTodo = {}
    /\ curPath = ""
    /\ newPathItem = EmptyMap
    /\ methodsTodo = {}
    /\ curMethod = ""
    /\ contentTodo = {}
    /\ stack = <<>>

\* opMap of the operation the loops are at
OpMap == doc.Paths[curPath][curMethod]

\* requestBody["content"] of that operation, when both assertions succeed
Content(op) ==
    IF HasMapAt(op, "requestBody") /\ HasMapAt(op["requestBody"], "content")
    THEN op["requestBody"]["content"]
    ELSE EmptyMap

\* ref, hasRef := schema["$ref"].(string); hasRef && schemas != nil, and the
\* referenced name is a mapping of schemas
BodyRefResolves(d, cval) ==
    /\ IsMap(cval)
    /\ HasMapAt(cval, "schema")
    /\ HasKey(cval["schema"], "$ref")
    /\ Resolves(d, RefName(cval["schema"]["$ref"]))

\* the root call of buildReqParameterTree made for a request body
RootFrame(d, ref) ==
    Frame(ToLower(RefName(ref)), RefName(ref), RefName(ref), RefName(ref),
          TRUE, "body", Schemas(d)[RefName(ref)])

\* Mutant of ChildFrame: childModel starts as the caller's model instead of an
\* empty map, so a property without a resolvable Ref is expanded as its owner.
ChildFrameParentModel(d, f, propName) ==
    Frame(propName,
          ChildDesc(Properties(f.model)[propName]),
          ChildType(Properties(f.model)[propName]),
          ChildSchemaValue(Properties(f.model)[propName]),
          propName \in RequiredFields(f.model),
          "",
          IF ChildModel(d, Properties(f.model)[propName]) = EmptyMap
          THEN f.model
          ELSE ChildModel(d, Properties(f.model)[propName]))

\* the recursive call made for property propName of frame f
ChildFrame(d, f, propName) ==
    Frame(propName,
          ChildDesc(Properties(f.model)[propName]),
          ChildType(Properties(f.model)[propName]),
          ChildSchemaValue(Properties(f.model)[propName]),
          propName \in RequiredFields(f.model),
          "",
          ChildModel(d, Properties(f.model)[propName]))

Top == stack[Len(stack)]

StartConvert ==
    /\ pc = "idle"
    /\ run < NumRuns
    /\ OpenApiContent.wellFormed
    /\ swagger' = SwaggerHead(doc)
    /\ paths' = EmptyMap
    /\ pathsTodo' = DOMAIN doc.Paths
    /\ pc' = "paths"
    /\ UNCHANGED << doc, loaded, run, outs, curPath, newPathItem, methodsTodo,
                    curMethod, contentTodo, stack, OpenApiContent, statuses, srvVars >>

\* for path, item := range openapi.Paths
NextPath ==
    /\ pc = "paths"
    /\ \E path \in pathsTodo :
          /\ pathsTodo' = pathsTodo \ {path}
          /\ IF IsMap(doc.Paths[path])
             THEN /\ curPath' = path
                  /\ newPathItem' = EmptyMap
                  /\ methodsTodo' = DOMAIN doc.Paths[path]
                  /\ pc' = "methods"
                  /\ UNCHANGED paths
             ELSE /\ paths' = (path :> doc.Paths[path]) @@ paths
                  /\ UNCHANGED << curPath, newPathItem, methodsTodo, pc >>
    /\ UNCHANGED << doc, loaded, run, swagger, outs, curMethod, contentTodo, stack, OpenApiContent, statuses, srvVars >>

\* for method, op := range pathItem
NextMethod ==
    /\ pc = "methods"
    /\ \E method \in methodsTodo :
          /\ methodsTodo' = methodsTodo \ {method}
          /\ IF IsMap(doc.Paths[curPath][method])
             THEN /\ curMethod' = method
                  /\ contentTodo' = DOMAIN Content(doc.Paths[curPath][method])
                  /\ pc' = "content"
                  /\ UNCHANGED newPathItem
             ELSE /\ newPathItem' = (method :> doc.Paths[curPath][method]) @@ newPathItem
                  /\ UNCHANGED << curMethod, contentTodo, pc >>
    /\ UNCHANGED << doc, loaded, run, swagger, outs, paths, pathsTodo, curPath, stack, OpenApiContent, statuses, srvVars >>

\* for _, cval := range content
NextContent ==
    /\ pc = "content"
    /\ \E ctype \in contentTodo :
          /\ contentTodo' = contentTodo \ {ctype}
          /\ IF BodyRefResolves(doc, Content(OpMap)[ctype])
             THEN /\ stack' = << RootFrame(doc, Content(OpMap)[ctype]["schema"]["$ref"]) >>
                  /\ pc' = "tree"
             ELSE UNCHANGED << stack, pc >>
    /\ UNCHANGED << doc, loaded, run, swagger, outs, paths, pathsTodo, curPath,
                    newPathItem, methodsTodo, curMethod, OpenApiContent, statuses, srvVars >>

\* for propName, prop := range props: a property that is no mapping is skipped,
\* one that is makes the recursive call.
Descend ==
    /\ pc = "tree"
    /\ \E propName \in Top.todo :
          IF IsMap(Properties(Top.model)[propName])
          THEN /\ Len(stack) < MaxDepth
               /\ stack' = Append([stack EXCEPT ![Len(stack)].todo = @ \ {propName}],
                                   ChildFrame(doc, Top, propName))
          ELSE stack' = [stack EXCEPT ![Len(stack)].todo = @ \ {propName}]
    /\ UNCHANGED << doc, loaded, run, pc, swagger, outs, paths, pathsTodo, curPath,
                    newPathItem, methodsTodo, curMethod, contentTodo, OpenApiContent, statuses, srvVars >>

\* The recursive call that no longer fits the goroutine stack: fatal to the process.
StackOverflow ==
    /\ pc = "tree"
    /\ Len(stack) >= MaxDepth
    /\ \E propName \in Top.todo : IsMap(Properties(Top.model)[propName])
    /\ pc' = "crashed"
    /\ UNCHANGED << doc, loaded, run, swagger, outs, paths, pathsTodo, curPath,
                    newPathItem, methodsTodo, curMethod, contentTodo, stack, OpenApiContent, statuses, srvVars >>

\* return param: children = append(children, child) in the caller, or, for the
\* root call, opMap["reqParameters"] = []map[string]interface{}{param}
Return ==
    /\ pc = "tree"
    /\ Top.todo = {}
    /\ IF Len(stack) = 1
       THEN /\ doc' = [doc EXCEPT !.Paths[curPath][curMethod] =
                                      ("reqParameters" :> << Param(Top) >>) @@ @]
            /\ stack' = <<>>
            /\ pc' = "content"
       ELSE /\ stack' = [SubSeq(stack, 1, Len(stack) - 1) EXCEPT
                            ![Len(stack) - 1].children = Append(@, Param(Top))]
            /\ UNCHANGED << doc, pc >>
    /\ UNCHANGED << loaded, run, swagger, outs, paths, pathsTodo, curPath,
                    newPathItem, methodsTodo, curMethod, contentTodo, OpenApiContent, statuses, srvVars >>

\* newPathItem[method] = opMap
FinishOp ==
    /\ pc = "content"
    /\ contentTodo = {}
    /\ newPathItem' = (curMethod :> OpMap) @@ newPathItem
    /\ pc' = "methods"
    /\ UNCHANGED << doc, loaded, run, swagger, outs, paths, pathsTodo, curPath,
                    methodsTodo, curMethod, contentTodo, stack, OpenApiContent, statuses, srvVars >>

\* paths[path] = newPathItem
FinishPath ==
    /\ pc = "methods"
    /\ methodsTodo = {}
    /\ paths' = (curPath :> newPathItem) @@ paths
    /\ pc' = "paths"
    /\ UNCHANGED << doc, loaded, run, swagger, outs, pathsTodo, curPath, newPathItem,
                    methodsTodo, curMethod, contentTodo, stack, OpenApiContent, statuses, srvVars >>

\* swagger["paths"] = paths; return swagger
FinishConvert ==
    /\ pc = "paths"
    /\ pathsTodo = {}
    /\ outs' = Append(outs, ("paths" :> paths) @@ swagger)
    /\ statuses' = Append(statuses, 200)
    /\ run' = run + 1
    /\ pc' = "idle"
    /\ UNCHANGED << doc, loaded, swagger, paths, pathsTodo, curPath, newPathItem,
                    methodsTodo, curMethod, contentTodo, stack, OpenApiContent, srvVars >>

\* The docYaml case when yaml.Unmarshal returns an error: 500, and return.
UnmarshalFails ==
    /\ pc = "idle"
    /\ run < NumRuns
    /\ ~OpenApiContent.wellFormed
    /\ statuses' = Append(statuses, 500)
    /\ run' = run + 1
    /\ UNCHANGED << doc, loaded, pc, swagger, outs, paths, pathsTodo, curPath, newPathItem,
                    methodsTodo, curMethod, contentTodo, stack, OpenApiContent, srvVars >>

Next ==
    \/ UnmarshalFails
    \/ StartConvert
    \/ NextPath
    \/ NextMethod
    \/ NextContent
    \/ Descend
    \/ StackOverflow
    \/ Return
    \/ FinishOp
    \/ FinishPath
    \/ FinishConvert

Spec == Init /\ [][Next]_vars

\* The goroutine running the conversion is always scheduled again.
FairSpec == Spec /\ WF_vars(Next)

(***************************************************************************)
(* knife4g.go: the typed document.  A pointer, interface or nillable map   *)
(* is Nil or Ptr(v); strings the converter only compares with "" are       *)
(* TLA+ strings.                                                           *)
(***************************************************************************)
Opt(cond, key, value) == IF cond THEN key :> value ELSE EmptyMap

\* The zero Schema.
ZeroSchema ==
    [ Type |-> "", Format |-> "", Title |-> "", Description |-> "", Default |-> Nil,
      MultipleOf |-> Nil, Maximum |-> Nil, Minimum |-> Nil,
      ExclusiveMaximum |-> FALSE, ExclusiveMinimum |-> FALSE,
      MaxLength |-> Nil, MinLength |-> Nil, Pattern |-> "",
      MaxItems |-> Nil, MinItems |-> Nil, UniqueItems |-> FALSE,
      MaxProperties |-> Nil, MinProperties |-> Nil,
      Required |-> <<>>, Enum |-> <<>>, Properties |-> Nil, Ref |-> "",
      Nullable |-> FALSE, ReadOnly |-> FALSE, WriteOnly |-> FALSE, Deprecated |-> FALSE ]

\* Every bound set, each to 0.
ZeroBoundsSchema ==
    [ ZeroSchema EXCEPT !.Type = "string", !.Default = Ptr(0),
        !.MultipleOf = Ptr(0), !.Maximum = Ptr(0), !.Minimum = Ptr(0),
        !.MaxLength = Ptr(0), !.MinLength = Ptr(0), !.MaxItems = Ptr(0), !.MinItems = Ptr(0),
        !.MaxProperties = Ptr(0), !.MinProperties = Ptr(0) ]

\* Every attribute set to a value that is not the zero value of its type.
FullSchema(props) ==
    [ Type |-> "object", Format |-> "f", Title |-> "t", Description |-> "d", Default |-> Ptr(1),
      MultipleOf |-> Ptr(2), Maximum |-> Ptr(9), Minimum |-> Ptr(1),
      ExclusiveMaximum |-> TRUE, ExclusiveMinimum |-> TRUE,
      MaxLength |-> Ptr(8), MinLength |-> Ptr(1), Pattern |-> "^a$",
      MaxItems |-> Ptr(4), MinItems |-> Ptr(1), UniqueItems |-> TRUE,
      MaxProperties |-> Ptr(3), MinProperties |-> Ptr(1),
      Required |-> <<"name">>, Enum |-> <<"e">>, Properties |-> props, Ref |-> "",
      Nullable |-> TRUE, ReadOnly |-> TRUE, WriteOnly |-> TRUE, Deprecated |-> TRUE ]

RefSchema == [ZeroSchema EXCEPT !.Ref = "#/components/schemas/Widget"]
StringSchema == [ZeroSchema EXCEPT !.Type = "string"]

\* The spec's Widget: {type: object, required: [name], properties: {name, tag}}.
WidgetSchema ==
    [ ZeroSchema EXCEPT !.Type = "object", !.Required = <<"name">>,
        !.Properties = Ptr(("name" :> Ptr(StringSchema)) @@ ("tag" :> Ptr(StringSchema))) ]

TypedSchemas ==
    { ZeroSchema, ZeroBoundsSchema, RefSchema, WidgetSchema,
      [ZeroSchema EXCEPT !.Properties = Ptr(EmptyMap)],
      [ZeroSchema EXCEPT !.Properties = Ptr(("p" :> Nil))],
      FullSchema(Nil),
      FullSchema(Ptr(("name" :> Ptr(ZeroBoundsSchema)) @@ ("tag" :> Ptr(FullSchema(Nil))))),
      [ZeroSchema EXCEPT !.Properties =
          Ptr(("inner" :> Ptr(FullSchema(Ptr(("leaf" :> Ptr(ZeroSchema)))))))] }

TypedSchemaMaps ==
    {("Widget" :> x) : x \in TypedSchemas}
      \cup {("Widget" :> WidgetSchema) @@ ("Other" :> ZeroBoundsSchema)}

\* Free text that may carry tags: a sequence of lines, each plain text, a
\* well-formed tag or a malformed tag.
TextLine(t) == [kind |-> "text", name |-> "", value |-> t]
TagLine(n, v) == [kind |-> "tag", name |-> n, value |-> v]
BadTagLine(t) == [kind |-> "malformed", name |-> "", value |-> t]

Descriptions ==
    { <<>>,
      << TextLine("plain text") >>,
      << TextLine("intro"), TagLine("description", "Widget API"), TextLine("rest") >>,
      << BadTagLine("description Widget API") >> }

ZeroOperation ==
    [ Tags |-> <<>>, Summary |-> "", OperationID |-> "", Description |-> <<>>,
      RequestBody |-> Nil, Responses |-> EmptyMap ]

OkResponses(content) == ("200" :> [Description |-> "ok", Content |-> content])

Operations ==
    { ZeroOperation,
      [ ZeroOperation EXCEPT !.Summary = "untagged",
          !.Description = << TextLine("plain text"), BadTagLine("description Lists widgets") >> ],
      [ ZeroOperation EXCEPT !.Tags = <<"widgets">>, !.Summary = "create", !.OperationID = "createWidget",
          !.Description = << TagLine("description", "Creates a widget") >>,
          !.RequestBody = Ptr([Required |-> TRUE,
                               Content |-> ("application/json" :>
                                              [Schema |-> Ptr(RefSchema), Example |-> Nil])]),
          !.Responses = OkResponses(Nil) ],
      [ ZeroOperation EXCEPT !.Summary = "inline",
          !.RequestBody = Ptr([Required |-> FALSE,
                               Content |-> ("application/json" :>
                                              [Schema |-> Ptr(StringSchema), Example |-> Ptr("x")])
                                           @@ ("text/plain" :> [Schema |-> Nil, Example |-> Nil])]),
          !.Responses = OkResponses(Ptr(("application/json" :>
                                            [Schema |-> Ptr(RefSchema), Example |-> Nil]))) ] }

ZeroPathItem == [Get |-> Nil, Post |-> Nil, Put |-> Nil, Delete |-> Nil, Patch |-> Nil]

PathItems ==
    {[ZeroPathItem EXCEPT !.Post = Ptr(op)] : op \in Operations}
      \cup { [ Get |-> Ptr(ZeroOperation), Post |-> Nil, Put |-> Ptr(ZeroOperation),
               Delete |-> Ptr(ZeroOperation), Patch |-> Ptr(ZeroOperation) ] }

ServerLists ==
    { <<>>,
      << [URL |-> "https://a", Description |-> "first", Variables |-> EmptyMap] >>,
      << [URL |-> "https://b", Description |-> "", Variables |->
            ("port" :> [Default |-> "80", Description |-> "p", Enum |-> <<"80", "81">>])],
         [URL |-> "https://a", Description |-> "first", Variables |-> EmptyMap] >> }

\* The OpenAPI3 document with no paths, no components, no servers.
EmptyDocument ==
    [ Info |-> [Title |-> "", Version |-> "", Description |-> <<>>],
      Servers |-> <<>>,
      Paths |-> EmptyMap,
      Components |-> [Schemas |-> EmptyMap] ]

WidgetDocument ==
    [ Info |-> [Title |-> "Widgets", Version |-> "1", Description |-> <<>>],
      Servers |-> <<>>,
      Paths |-> ("/widgets" :> [ZeroPathItem EXCEPT !.Post =
                    Ptr([ZeroOperation EXCEPT
                           !.RequestBody = Ptr([Required |-> TRUE,
                                                Content |-> ("application/json" :>
                                                   [Schema |-> Ptr(RefSchema), Example |-> Nil])])])]),
      Components |-> [Schemas |-> ("Widget" :> WidgetSchema)] ]

\* The documents the host may have loaded: the empty one, the spec's Widget
\* example, and the Widget example with one part replaced.
TypedDocuments ==
    {EmptyDocument, WidgetDocument}
      \cup {[WidgetDocument EXCEPT !.Components.Schemas = m] : m \in TypedSchemaMaps}
      \cup {[WidgetDocument EXCEPT !.Paths = ("/widgets" :> i)] : i \in PathItems}
      \cup {[WidgetDocument EXCEPT !.Info.Description = t] : t \in Descriptions}
      \cup {[WidgetDocument EXCEPT !.Servers = l] : l \in ServerLists}

(***************************************************************************)
(* The comment parser (NewCommentParser().Parse, HasTag, GetString)        *)
(***************************************************************************)
\* Parse: the tags of the text, by name; a later tag of the same name wins.
Parse(text) ==
    [ n \in {text[i].name : i \in {j \in 1..Len(text) : text[j].kind = "tag"}} |->
        text[CHOOSE i \in 1..Len(text) :
               /\ text[i].kind = "tag" /\ text[i].name = n
               /\ \A j \in i + 1..Len(text) : ~(text[j].kind = "tag" /\ text[j].name = n)].value ]

HasTag(parser, n) == n \in DOMAIN parser
GetString(parser, n) == IF HasTag(parser, n) THEN parser[n] ELSE ""

(***************************************************************************)
(* convertToOpenAPI3 and its helpers                                       *)
(***************************************************************************)
RECURSIVE convertSchemaToOpenAPI3(_)
\* Mutant of convertSchemaToOpenAPI3: the flags and the set bounds are copied
\* only when they are not the zero value (as omitempty would).
convertSchemaOmitEmpty(p) ==
    IF IsNil(p) THEN Nil
    ELSE LET schema == Deref(p) IN
        Opt(schema.Type # "", "type", schema.Type)
          @@ Opt(schema.Format # "", "format", schema.Format)
          @@ Opt(schema.Title # "", "title", schema.Title)
          @@ Opt(schema.Description # "", "description", schema.Description)
          @@ Opt(~IsNil(schema.Default), "default", schema.Default)
          @@ Opt(~IsNil(schema.MultipleOf) /\ schema.MultipleOf # Ptr(0), "multipleOf", schema.MultipleOf)
          @@ Opt(~IsNil(schema.Maximum) /\ schema.Maximum # Ptr(0), "maximum", schema.Maximum)
          @@ Opt(~IsNil(schema.Minimum) /\ schema.Minimum # Ptr(0), "minimum", schema.Minimum)
          @@ Opt(schema.ExclusiveMaximum, "exclusiveMaximum", schema.ExclusiveMaximum)
          @@ Opt(schema.ExclusiveMinimum, "exclusiveMinimum", schema.ExclusiveMinimum)
          @@ Opt(~IsNil(schema.MaxLength) /\ schema.MaxLength # Ptr(0), "maxLength", schema.MaxLength)
          @@ Opt(~IsNil(schema.MinLength) /\ schema.MinLength # Ptr(0), "minLength", schema.MinLength)
          @@ Opt(schema.Pattern # "", "pattern", schema.Pattern)
          @@ Opt(~IsNil(schema.MaxItems) /\ schema.MaxItems # Ptr(0), "maxItems", schema.MaxItems)
          @@ Opt(~IsNil(schema.MinItems) /\ schema.MinItems # Ptr(0), "minItems", schema.MinItems)
          @@ Opt(schema.UniqueItems, "uniqueItems", schema.UniqueItems)
          @@ Opt(~IsNil(schema.MaxProperties) /\ schema.MaxProperties # Ptr(0), "maxProperties", schema.MaxProperties)
          @@ Opt(~IsNil(schema.MinProperties) /\ schema.MinProperties # Ptr(0), "minProperties", schema.MinProperties)
          @@ Opt(Len(schema.Required) > 0, "required", schema.Required)
          @@ Opt(Len(schema.Enum) > 0, "enum", schema.Enum)
          @@ Opt(~IsNil(schema.Properties), "properties",
                 [name \in DOMAIN Deref(schema.Properties) |->
                     convertSchemaToOpenAPI3(Deref(schema.Properties)[name])])
          @@ Opt(schema.Ref # "", "$ref", schema.Ref)
          @@ Opt(schema.Nullable, "nullable", schema.Nullable)
          @@ Opt(schema.ReadOnly, "readOnly", schema.ReadOnly)
          @@ Opt(schema.WriteOnly, "writeOnly", schema.WriteOnly)
          @@ Opt(schema.Deprecated, "deprecated", schema.Deprecated)

\* convertSchemaToOpenAPI3(schema *Schema): nil for nil; a set pointer is kept
\* as the pointer it is (JSON encodes what it points to).
convertSchemaToOpenAPI3(p) ==
    IF IsNil(p) THEN Nil
    ELSE LET schema == Deref(p) IN
        Opt(schema.Type # "", "type", schema.Type)
          @@ Opt(schema.Format # "", "format", schema.Format)
          @@ Opt(schema.Title # "", "title", schema.Title)
          @@ Opt(schema.Description # "", "description", schema.Description)
          @@ Opt(~IsNil(schema.Default), "default", schema.Default)
          @@ Opt(~IsNil(schema.MultipleOf), "multipleOf", schema.MultipleOf)
          @@ Opt(~IsNil(schema.Maximum), "maximum", schema.Maximum)
          @@ Opt(~IsNil(schema.Minimum), "minimum", schema.Minimum)
          @@ ("exclusiveMaximum" :> schema.ExclusiveMaximum)
          @@ ("exclusiveMinimum" :> schema.ExclusiveMinimum)
          @@ Opt(~IsNil(schema.MaxLength), "maxLength", schema.MaxLength)
          @@ Opt(~IsNil(schema.MinLength), "minLength", schema.MinLength)
          @@ Opt(schema.Pattern # "", "pattern", schema.Pattern)
          @@ Opt(~IsNil(schema.MaxItems), "maxItems", schema.MaxItems)
          @@ Opt(~IsNil(schema.MinItems), "minItems", schema.MinItems)
          @@ ("uniqueItems" :> schema.UniqueItems)
          @@ Opt(~IsNil(schema.MaxProperties), "maxProperties", schema.MaxProperties)
          @@ Opt(~IsNil(schema.MinProperties), "minProperties", schema.MinProperties)
          @@ Opt(Len(schema.Required) > 0, "required", schema.Required)
          @@ Opt(Len(schema.Enum) > 0, "enum", schema.Enum)
          @@ Opt(~IsNil(schema.Properties), "properties",
                 [name \in DOMAIN Deref(schema.Properties) |->
                     convertSchemaToOpenAPI3(Deref(schema.Properties)[name])])
          @@ Opt(schema.Ref # "", "$ref", schema.Ref)
          @@ ("nullable" :> schema.Nullable)
          @@ ("readOnly" :> schema.ReadOnly)
          @@ ("writeOnly" :> schema.WriteOnly)
          @@ ("deprecated" :> schema.Deprecated)

convertSchemasToOpenAPI3(schemas) ==
    [name \in DOMAIN schemas |-> convertSchemaToOpenAPI3(Ptr(schemas[name]))]

convertContentToOpenAPI3(content) ==
    [ contentType \in DOMAIN content |->
        Opt(~IsNil(content[contentType].Schema), "schema",
            convertSchemaToOpenAPI3(content[contentType].Schema))
          @@ Opt(~IsNil(content[contentType].Example), "example", content[contentType].Example) ]

\* Mutant of convertOperationToOpenAPI3: the description is read without the
\* presence check.
convertOperationAlwaysDescribes(op) ==
    ("tags" :> op.Tags)
      @@ ("summary" :> op.Summary)
      @@ ("operationId" :> op.OperationID)
      @@ ("description" :> GetString(Parse(op.Description), "description"))
      @@ Opt(~IsNil(op.RequestBody), "requestBody",
             IF IsNil(op.RequestBody) THEN Nil
             ELSE [ required |-> Deref(op.RequestBody).Required,
                    content |-> convertContentToOpenAPI3(Deref(op.RequestBody).Content) ])
      @@ ("responses" :>
            [ code \in DOMAIN op.Responses |->
                ("description" :> op.Responses[code].Description)
                  @@ Opt(~IsNil(op.Responses[code].Content), "content",
                         IF IsNil(op.Responses[code].Content) THEN Nil
                         ELSE convertContentToOpenAPI3(Deref(op.Responses[code].Content))) ])

convertOperationToOpenAPI3(op) ==
    ("tags" :> op.Tags)
      @@ ("summary" :> op.Summary)
      @@ ("operationId" :> op.OperationID)
      @@ Opt(HasTag(Parse(op.Description), "description"), "description",
             GetString(Parse(op.Description), "description"))
      @@ Opt(~IsNil(op.RequestBody), "requestBody",
             IF IsNil(op.RequestBody) THEN Nil
             ELSE [ required |-> Deref(op.RequestBody).Required,
                    content |-> convertContentToOpenAPI3(Deref(op.RequestBody).Content) ])
      @@ ("responses" :>
            [ code \in DOMAIN op.Responses |->
                ("description" :> op.Responses[code].Description)
                  @@ Opt(~IsNil(op.Responses[code].Content), "content",
                         IF IsNil(op.Responses[code].Content) THEN Nil
                         ELSE convertContentToOpenAPI3(Deref(op.Responses[code].Content))) ])

convertServers(servers) ==
    IF Len(servers) > 0
    THEN [ i \in 1..Len(servers) |->
             ("url" :> servers[i].URL)
               @@ ("description" :> servers[i].Description)
               @@ Opt(Cardinality(DOMAIN servers[i].Variables) > 0, "variables",
                      [ name \in DOMAIN servers[i].Variables |->
                          [ default |-> servers[i].Variables[name].Default,
                            description |-> servers[i].Variables[name].Description,
                            enum |-> servers[i].Variables[name].Enum ] ]) ]
    ELSE << [url |-> "http://localhost:8000", description |-> "Generated server url"] >>

convertPathItem(pathItem) ==
    Opt(~IsNil(pathItem.Get), "get",
        IF IsNil(pathItem.Get) THEN Nil ELSE convertOperationToOpenAPI3(Deref(pathItem.Get)))
      @@ Opt(~IsNil(pathItem.Post), "post",
             IF IsNil(pathItem.Post) THEN Nil ELSE convertOperationToOpenAPI3(Deref(pathItem.Post)))
      @@ Opt(~IsNil(pathItem.Put), "put",
             IF IsNil(pathItem.Put) THEN Nil ELSE convertOperationToOpenAPI3(Deref(pathItem.Put)))
      @@ Opt(~IsNil(pathItem.Delete), "delete",
             IF IsNil(pathItem.Delete) THEN Nil ELSE convertOperationToOpenAPI3(Deref(pathItem.Delete)))
      @@ Opt(~IsNil(pathItem.Patch), "patch",
             IF IsNil(pathItem.Patch) THEN Nil ELSE convertOperationToOpenAPI3(Deref(pathItem.Patch)))

convertToOpenAPI3(openapi, cfg) ==
    ("openapi" :> "3.0.1")
      @@ ("info" :>
            ( ("title" :> openapi.Info.Title)
                @@ ("version" :> openapi.Info.Version)
                @@ ("name" :> cfg.ServerName)
                @@ Opt(HasTag(Parse(openapi.Info.Description), "description"), "description",
                       GetString(Parse(openapi.Info.Description), "description")) ))
      @@ ("servers" :> convertServers(openapi.Servers))
      @@ ("paths" :> [path \in DOMAIN openapi.Paths |-> convertPathItem(openapi.Paths[path])])
      @@ ("components" :> ("schemas" :> convertSchemasToOpenAPI3(openapi.Components.Schemas)))

(***************************************************************************)
(* Handler, NewKnife4jServer and the request handlers (knife4g.go).  A URL *)
(* path is a sequence of tokens ("/", a name, an extension such as         *)
(* ".html"), so that "/doc" is a prefix of "/doc.html" as it is in Go.     *)
(***************************************************************************)
\* Requests in flight or answered during one run.
MaxRequests == 2

HasPrefix(s, prefix) == Len(prefix) <= Len(s) /\ SubSeq(s, 1, Len(prefix)) = prefix
TrimPrefix(s, prefix) ==
    IF HasPrefix(s, prefix) THEN SubSeq(s, Len(prefix) + 1, Len(s)) ELSE s

ApiDocsPath == <<"/", "v3", "/", "api-docs">>
SwaggerConfigPath == <<"/", "v3", "/", "api-docs", "/", "swagger-config">>
DocHtmlPath == <<"/", "doc", ".html">>
RootPath == <<"/">>
AppJsPath == <<"/", "webjars", "/", "js", "/", "app", ".js">>

\* The files of the embedded front directory, by their path below it.
FrontFiles == { <<"doc", ".html">>, <<"webjars", "/", "js", "/", "app", ".js">> }

\* filepath.Ext: the extension token that ends the path, if any.
Ext(path) ==
    IF Len(path) > 0 /\ path[Len(path)] \in {".html", ".js", ".css", ".png"}
    THEN path[Len(path)]
    ELSE ""

\* setContentType: the Content-Type it sets, "" when it sets none.
setContentType(ext) ==
    CASE ext = ".js" -> "application/javascript"
      [] ext = ".css" -> "text/css"
      [] ext = ".html" -> "text/html"
      [] ext = ".png" -> "image/png"
      [] OTHER -> ""

\* The default resources NewKnife4jServer installs.
DefaultResources(cfg) ==
    << [ URL |-> "/v3/api-docs",
         ConfigURL |-> "/v3/api-docs/swagger-config",
         OAuth2RedirectURL |-> "/swagger-ui/oauth2-redirect.html",
         ValidatorURL |-> "",
         Name |-> cfg.ServerName,
         Location |-> "/v3/api-docs",
         SwaggerVersion |-> "3.0.3",
         TagSort |-> "order",
         OperationSort |-> "order" ] >>

\* Resources a host may configure itself.
CustomResources ==
    << [ URL |-> "/custom/api-docs",
         ConfigURL |-> "/custom/config",
         OAuth2RedirectURL |-> "",
         ValidatorURL |-> "",
         Name |-> "custom",
         Location |-> "/custom/api-docs",
         SwaggerVersion |-> "3.0.3",
         TagSort |-> "",
         OperationSort |-> "" ] >>

\* The Config values the host hands to Handler.
Configs ==
    { [RelativePath |-> <<>>, ServerName |-> "api-service", OpenAPI |-> o, SwagResources |-> Nil] :
        o \in {Nil} \cup {Ptr(d) : d \in TypedDocuments} }
      \cup [ RelativePath : {<<"/", "doc">>},
             ServerName : {"api-service"},
             OpenAPI : {Nil, Ptr(WidgetDocument)},
             SwagResources : {Nil, Ptr(CustomResources)} ]
      \cup { [ RelativePath |-> <<>>, ServerName |-> "api-service",
               OpenAPI |-> Ptr(WidgetDocument), SwagResources |-> Ptr(CustomResources) ] }

\* The requests a client may send.
Requests ==
    [ method : {"GET"},
      url : { ApiDocsPath, SwaggerConfigPath, DocHtmlPath, RootPath, AppJsPath,
              <<"/", "doc">> \o ApiDocsPath, <<"/", "doc">> \o DocHtmlPath, <<"/", "other">> } ]
      \cup { [method |-> "POST", url |-> ApiDocsPath] }

\* A request that has not arrived.
NoRequest ==
    [ pc |-> "none", method |-> "", url |-> <<>>, status |-> 0, contentType |-> "",
      cors |-> FALSE, cacheControl |-> "", body |-> EmptyMap ]

\* NewKnife4jServer: the Config it leaves behind (the server holds the same pointer).
NewKnife4jServer(cfg) ==
    IF IsNil(cfg.SwagResources)
    THEN [cfg EXCEPT !.SwagResources = Ptr(DefaultResources(cfg))]
    ELSE cfg

\* path of Handler's closure: the URL path with RelativePath trimmed.
RoutedPath(cfg, url) ==
    IF cfg.RelativePath # <<>> /\ HasPrefix(url, cfg.RelativePath)
    THEN TrimPrefix(url, cfg.RelativePath)
    ELSE url

\* The switch of Handler's closure: the handler the request goes to.
RouteOf(path) ==
    CASE path = ApiDocsPath -> "docs"
      [] path = SwaggerConfigPath -> "config"
      [] path = DocHtmlPath \/ path = RootPath -> "html"
      [] OTHER -> IF HasPrefix(path, <<"/", "webjars">>) \/ HasPrefix(path, <<"/", "doc">>)
                  THEN "static"
                  ELSE "notfound"

\* http.Error / http.NotFound
HttpError(req, code, text) ==
    [ req EXCEPT !.pc = "done", !.status = code, !.contentType = "text/plain; charset=utf-8",
                 !.body = ("text" :> text) ]

\* Mutant of SwaggerConfigBody: the response always lists the default resources.
SwaggerConfigBodyDefault(cfg) == [urls |-> Ptr(DefaultResources(cfg))]

\* The body handleSwaggerConfig encodes.
SwaggerConfigBody(cfg) == [urls |-> cfg.SwagResources]

\* The name handleStaticFile opens in staticFS.
StaticName(url) ==
    IF TrimPrefix(url, <<"/">>) = <<>> \/ TrimPrefix(url, <<"/">>) = <<"doc", ".html">>
    THEN <<"doc", ".html">>
    ELSE TrimPrefix(url, <<"/">>)

\* handleStaticFile
StaticResponse(req) ==
    IF StaticName(req.url) \notin FrontFiles
    THEN HttpError(req, 404, "404 page not found")
    ELSE [ req EXCEPT
             !.pc = "done",
             !.status = 200,
             !.contentType =
                 IF StaticName(req.url) = <<"doc", ".html">> THEN "text/html; charset=utf-8"
                 ELSE IF setContentType(Ext(StaticName(req.url))) # ""
                      THEN setContentType(Ext(StaticName(req.url)))
                      ELSE @,
             !.cacheControl = "public, max-age=31536000",
             !.body = ("file" :> StaticName(req.url)) ]

\* The conversion of knife4g.go does not take part in a run of convertToSwagger,
\* nor the converter of part_000 in a run of the server.
ConverterUnused ==
    /\ doc = ZeroOpenAPI
    /\ loaded = doc
    /\ OpenApiContent = YamlContent(FALSE, <<>>)
    /\ statuses = <<>>
    /\ run = 0
    /\ pc = "unused"
    /\ swagger = EmptyMap
    /\ outs = <<>>
    /\ paths = EmptyMap
    /\ pathsTodo = {}
    /\ curPath = ""
    /\ newPathItem = EmptyMap
    /\ methodsTodo = {}
    /\ curMethod = ""
    /\ contentTodo = {}
    /\ stack = <<>>

\* The host has filled in a Config and has not yet called Handler.
ServerInit ==
    /\ ConverterUnused
    /\ config \in Configs
    /\ constructed = FALSE
    /\ built = config
    /\ reqs = [r \in 1..MaxRequests |-> NoRequest]

\* Handler(config), up to the return of the http.HandlerFunc.
Construct ==
    /\ ~constructed
    /\ config' = NewKnife4jServer(config)
    /\ built' = NewKnife4jServer(config)
    /\ constructed' = TRUE
    /\ UNCHANGED << reqs, convVars >>

\* The http server starts a goroutine for a request.
Arrive(r) ==
    /\ constructed
    /\ reqs[r].pc = "none"
    /\ IF r = 1 THEN TRUE ELSE reqs[r - 1].pc # "none"
    /\ \E q \in Requests :
          reqs' = [reqs EXCEPT ![r] = [NoRequest EXCEPT !.pc = "handler", !.method = q.method, !.url = q.url]]
    /\ UNCHANGED << config, constructed, built, convVars >>

\* The closure of Handler, up to the call of the handler the switch selects.
Routed(cfg, req) ==
    IF req.method # "GET"
    THEN HttpError(req, 405, "Method not allowed")
    ELSE IF RouteOf(RoutedPath(cfg, req.url)) = "notfound"
         THEN HttpError([req EXCEPT !.cors = TRUE], 404, "404 page not found")
         ELSE [req EXCEPT
                 !.cors = TRUE,
                 !.pc = IF RouteOf(RoutedPath(cfg, req.url)) = "html"
                        THEN "static"
                        ELSE RouteOf(RoutedPath(cfg, req.url)),
                 !.contentType =
                     CASE RouteOf(RoutedPath(cfg, req.url)) \in {"docs", "config"} ->
                            "application/json"
                       [] RouteOf(RoutedPath(cfg, req.url)) = "html" ->
                            "text/html; charset=utf-8"
                       [] OTHER -> ""]

Route(r) ==
    /\ reqs[r].pc = "handler"
    /\ reqs' = [reqs EXCEPT ![r] = Routed(config, reqs[r])]
    /\ UNCHANGED << config, constructed, built, convVars >>

\* Mutant of DocsCheck: the nil check is left out.
DocsCheckNoNilCheck(r) ==
    /\ reqs[r].pc = "docs"
    /\ reqs' = [reqs EXCEPT ![r] = [@ EXCEPT !.pc = "convert"]]
    /\ UNCHANGED << config, constructed, built, convVars >>

\* handleOpenAPIDocs, the nil check.
DocsCheck(r) ==
    /\ reqs[r].pc = "docs"
    /\ reqs' = [reqs EXCEPT ![r] =
          IF IsNil(config.OpenAPI)
          THEN HttpError(@, 500, "OpenAPI document not loaded")
          ELSE [@ EXCEPT !.pc = "convert"]]
    /\ UNCHANGED << config, constructed, built, convVars >>

\* handleOpenAPIDocs, from convertToOpenAPI3 to the encoded response.
DocsConvert(r) ==
    /\ reqs[r].pc = "convert"
    /\ reqs' = [reqs EXCEPT ![r] =
          IF IsNil(config.OpenAPI)
          THEN [@ EXCEPT !.pc = "panicked"]
          ELSE [@ EXCEPT !.pc = "done", !.status = 200, !.contentType = "application/json",
                         !.body = ("json" :> convertToOpenAPI3(Deref(config.OpenAPI), config))]]
    /\ UNCHANGED << config, constructed, built, convVars >>

\* handleSwaggerConfig
HandleSwaggerConfig(r) ==
    /\ reqs[r].pc = "config"
    /\ reqs' = [reqs EXCEPT ![r] =
          [@ EXCEPT !.pc = "done", !.status = 200, !.contentType = "application/json",
                    !.body = ("json" :> SwaggerConfigBody(config))]]
    /\ UNCHANGED << config, constructed, built, convVars >>

\* handleStaticFile
HandleStaticFile(r) ==
    /\ reqs[r].pc = "static"
    /\ reqs' = [reqs EXCEPT ![r] = StaticResponse(@)]
    /\ UNCHANGED << config, constructed, built, convVars >>

ServerNext ==
    \/ Construct
    \/ \E r \in 1..MaxRequests : Arrive(r)
    \/ \E r \in 1..MaxRequests : Route(r)
    \/ \E r \in 1..MaxRequests : DocsCheck(r)
    \/ \E r \in 1..MaxRequests : DocsConvert(r)
    \/ \E r \in 1..MaxRequests : HandleSwaggerConfig(r)
    \/ \E r \in 1..MaxRequests : HandleStaticFile(r)

ServerSpec == ServerInit /\ [][ServerNext]_vars

\* Either release of the handler: the one of part_000, answering its docYaml
\* route, or the one of knife4g.go.
HandlersInit == Init \/ ServerInit

\* The steps of the converter are disabled while pc = "unused"; those of the
\* server are taken only then.
HandlersNext ==
    \/ UnmarshalFails
    \/ StartConvert
    \/ NextPath
    \/ NextMethod
    \/ NextContent
    \/ Descend
    \/ StackOverflow
    \/ Return
    \/ FinishOp
    \/ FinishPath
    \/ FinishConvert
    \/ pc = "unused" /\ Construct
    \/ pc = "unused" /\ \E r \in 1..MaxRequests : Arrive(r)
    \/ pc = "unused" /\ \E r \in 1..MaxRequests : Route(r)
    \/ pc = "unused" /\ \E r \in 1..MaxRequests : DocsCheck(r)
    \/ pc = "unused" /\ \E r \in 1..MaxRequests : DocsConvert(r)
    \/ pc = "unused" /\ \E r \in 1..MaxRequests : HandleSwaggerConfig(r)
    \/ pc = "unused" /\ \E r \in 1..MaxRequests : HandleStaticFile(r)

HandlersSpec == HandlersInit /\ [][HandlersNext]_vars

(***************************************************************************)
(* Vocabulary of the properties                                            *)
(***************************************************************************)
\* The suffix of ref after its last "/" (the whole of ref when it has none).
AfterLastSlash(ref) ==
    CHOOSE s \in {SubSeq(ref, k + 1, Len(ref)) : k \in 0..Len(ref)} :
        /\ \A j \in 1..Len(s) : s[j] # "/"
        /\ Len(s) = Len(ref) \/ ref[Len(ref) - Len(s)] = "/"

\* The operations of a paths map that are mappings, as <<path, method>>.
OpKeysOf(pm) ==
    UNION { {<<p, m>> : m \in {k \in DOMAIN pm[p] : IsMap(pm[p][k])}} :
            p \in {q \in DOMAIN pm : IsMap(pm[q])} }

OpKeys(d) == OpKeysOf(d.Paths)

\* The $ref strings of the request body of operation op.
BodyRefs(op) ==
    { Content(op)[c]["schema"]["$ref"] :
        c \in {k \in DOMAIN Content(op) :
                 HasMapAt(Content(op)[k], "schema") /\ HasKey(Content(op)[k]["schema"], "$ref")} }

\* The Components schema named n in document d, if there is one.
Named(d, n) == HasKey(Schemas(d), n) /\ IsMap(Schemas(d)[n])

\* The schema a property points to: the Components schema its $ref names, or
\* an empty schema.
Target(d, prop) ==
    IF HasKey(prop, "$ref") /\ Named(d, AfterLastSlash(prop["$ref"]))
    THEN Schemas(d)[AfterLastSlash(prop["$ref"])]
    ELSE EmptyMap

\* The properties of a schema that are themselves mappings.
MapProps(model) == {q \in DOMAIN Properties(model) : IsMap(Properties(model)[q])}

\* Names of the schemas some mapping property of schema n refers to.
RefTargets(d, n) ==
    { AfterLastSlash(Properties(Schemas(d)[n])[q]["$ref"]) :
        q \in {r \in MapProps(Schemas(d)[n]) : HasKey(Properties(Schemas(d)[n])[r], "$ref")} }
      \cap {m \in DOMAIN Schemas(d) : Named(d, m)}

RECURSIVE ReachedIn(_, _, _)
\* Schema names reached from the names in S through at most k references.
ReachedIn(d, S, k) ==
    IF k = 0 THEN S
    ELSE ReachedIn(d, S \cup UNION {RefTargets(d, n) : n \in S}, k - 1)

\* Schema names reachable from n through one or more references.
ReachedFrom(d, n) == ReachedIn(d, RefTargets(d, n), Cardinality(DOMAIN Schemas(d)))

\* No schema of d refers, directly or through other schemas, to itself.
Acyclic(d) == \A n \in {m \in DOMAIN Schemas(d) : Named(d, m)} : n \notin ReachedFrom(d, n)

\* The finished parameter trees attached to the operations of d.
Trees(d) ==
    { d.Paths[k[1]][k[2]]["reqParameters"][1] :
        k \in {o \in OpKeys(d) : HasKey(d.Paths[o[1]][o[2]], "reqParameters")} }

RECURSIVE NodeCount(_)
NodeCount(node) ==
    IF Len(node.children) = 0 THEN 1
    ELSE 1 + NodeCount(node.children[1])
           + NodeCount([node EXCEPT !.children = Tail(@)]) - 1

RECURSIVE Depth(_)
Depth(node) ==
    IF Len(node.children) = 0 THEN 1
    ELSE 1 + (CHOOSE x \in {Depth(node.children[i]) : i \in 1..Len(node.children)} :
                \A j \in 1..Len(node.children) : Depth(node.children[j]) <= x)

\* Name n is an entry of the Required list of schema model.
InRequired(model, n) ==
    HasKey(model, "required") /\ \E i \in DOMAIN model["required"] : model["required"][i] = n

\* The <<schema name, property name>> pairs reachable from schema n.
DistinctProps(d, n) ==
    UNION { {<<m, q>> : q \in MapProps(Schemas(d)[m])} :
            m \in ReachedIn(d, {n}, Cardinality(DOMAIN Schemas(d))) }

RECURSIVE PropPaths(_, _)
\* The property paths of a schema: the non-empty sequences of property names
\* that lead from it through resolvable references.
PropPaths(d, model) ==
    UNION { {<<q>>} \cup {<<q>> \o r : r \in PropPaths(d, Target(d, Properties(model)[q]))} :
            q \in MapProps(model) }

RECURSIVE Canon(_)
\* A parameter tree without the order of its children.
Canon(node) ==
    [ name |-> node.name, description |-> node.description, type |-> node.type,
      schemaValue |-> node.schemaValue, in |-> node.in, require |-> node.require,
      children |-> {Canon(node.children[i]) : i \in 1..Len(node.children)} ]

\* An output document with every reqParameters tree taken without child order.
OutView(out) ==
    [ head |-> [k \in DOMAIN out \ {"paths"} |-> out[k]],
      items |-> [p \in {q \in DOMAIN out["paths"] : ~IsMap(out["paths"][q])} |-> out["paths"][p]],
      ops |-> [k \in OpKeysOf(out["paths"]) |->
                  [f \in DOMAIN out["paths"][k[1]][k[2]] \ {"reqParameters"} |->
                      out["paths"][k[1]][k[2]][f]]],
      trees |-> [k \in OpKeysOf(out["paths"]) |->
                  IF HasKey(out["paths"][k[1]][k[2]], "reqParameters")
                  THEN {Canon(out["paths"][k[1]][k[2]]["reqParameters"][i]) :
                          i \in DOMAIN out["paths"][k[1]][k[2]]["reqParameters"]}
                  ELSE {}] ]

(***************************************************************************)
(* Properties of convertToSwagger and buildReqParameterTree                *)
(***************************************************************************)

\* C1 (as claimed): in every converted document an operation has a
\* reqParameters list of exactly one root node, built from a Components schema
\* its request body refers to, when some media-type schema of its body carries
\* a $ref, and has no reqParameters key otherwise.
C1_ReqParametersIffBodyRef ==
    \A i \in 1..Len(outs) : \A k \in OpKeysOf(outs[i]["paths"]) :
        LET op == outs[i]["paths"][k[1]][k[2]] IN
        IF BodyRefs(op) # {}
        THEN /\ HasKey(op, "reqParameters")
             /\ Len(op["reqParameters"]) = 1
             /\ \E r \in BodyRefs(op) :
                   /\ op["reqParameters"][1].schemaValue = AfterLastSlash(r)
                   /\ Named(loaded, AfterLastSlash(r))
        ELSE ~HasKey(op, "reqParameters")

RECURSIVE RequiredFlagsAgree(_, _, _)
RequiredFlagsAgree(d, node, model) ==
    \A i \in 1..Len(node.children) :
        /\ node.children[i].require = InRequired(model, node.children[i].name)
        /\ RequiredFlagsAgree(d, node.children[i],
                              Target(d, Properties(model)[node.children[i].name]))

\* C2: in every parameter tree, at every depth, a child node's require flag is
\* TRUE exactly when the property's name is in the Required list of the schema
\* that owns the property (FALSE when that schema has no Required list).
C2_RequiredFlags ==
    \A t \in Trees(doc) :
        /\ Named(doc, t.schemaValue)
        /\ RequiredFlagsAgree(doc, t, Schemas(doc)[t.schemaValue])

\* A finished tree with an optional child that owns a required grandchild.
C2_Witness ==
    \E t \in Trees(doc) : \E i \in 1..Len(t.children) :
        /\ t.children[i].require = FALSE
        /\ \E j \in 1..Len(t.children[i].children) : t.children[i].children[j].require = TRUE

RECURSIVE RefNodesOk(_, _, _)
RefNodesOk(d, node, model) ==
    /\ \A q \in MapProps(model) : \E i \in 1..Len(node.children) : node.children[i].name = q
    /\ \A i \in 1..Len(node.children) :
          LET c == node.children[i]
              prop == Properties(model)[c.name]
          IN /\ c.schemaValue = IF HasKey(prop, "$ref") THEN AfterLastSlash(prop["$ref"]) ELSE <<>>
             /\ (HasKey(prop, "$ref") /\ ~Named(d, AfterLastSlash(prop["$ref"])))
                   => c.children = <<>>
             /\ RefNodesOk(d, c, Target(d, prop))

\* C3: a property's Ref is looked up once, by the suffix after its last "/"
\* (whole when it has none), in the Components schemas; when the name is not
\* there the property's node is still emitted, with no children, the rest of
\* the tree is built, and no failure other than the unbounded recursion of a
\* reference cycle ends the conversion.
C3_UnresolvedRefDegrades ==
    /\ \A t \in Trees(doc) :
          Named(doc, t.schemaValue) /\ RefNodesOk(doc, t, Schemas(doc)[t.schemaValue])
    /\ pc = "crashed" => ~Acyclic(doc)

\* A conversion that returned, with a tree that holds a childless node for the
\* dangling reference "#/s/M" beside another node.
C3_Witness ==
    /\ pc = "idle"
    /\ run >= 1
    /\ \E t \in Trees(doc) :
          /\ Len(t.children) >= 2
          /\ \E i \in 1..Len(t.children) :
                t.children[i].schemaValue = <<"M">> /\ t.children[i].children = <<>>

\* C4 (as claimed): over acyclic Components the node count of a parameter tree
\* is the number of distinct schema properties reachable from its root schema
\* through resolvable references, plus one.
C4_CountsDistinctProps ==
    \A t \in Trees(doc) :
        Acyclic(doc) => NodeCount(t) = Cardinality(DistinctProps(doc, t.schemaValue)) + 1

\* C4 (amended): over acyclic Components the node count of a parameter tree is
\* the number of property paths from its root schema through resolvable
\* references, plus one: a schema reached along two paths is expanded twice.
C4_CountsPropPaths ==
    \A t \in Trees(doc) :
        Acyclic(doc) =>
            /\ Named(doc, t.schemaValue)
            /\ NodeCount(t) = Cardinality(PropPaths(doc, Schemas(doc)[t.schemaValue])) + 1

\* A finished tree over acyclic Components in which a schema is expanded twice.
C4_Witness ==
    \E t \in Trees(doc) :
        /\ Acyclic(doc)
        /\ NodeCount(t) > Cardinality(DistinctProps(doc, t.schemaValue)) + 1

\* Below the root's children, a call is made only from a frame whose property
\* carried a Ref that names a Components schema.
DescendsThroughRefsOnly ==
    \A i \in 3..Len(stack) :
        stack[i - 1].schemaValue # <<>> /\ Named(doc, stack[i - 1].schemaValue)

\* C5: over Components without a reference cycle every build of a parameter
\* tree returns, and the recursion goes below a property only when the
\* property carries a resolvable Ref.
C5_TerminatesOnAcyclic ==
    /\ [](Acyclic(doc) => DescendsThroughRefsOnly)
    /\ (pc = "tree" /\ Acyclic(doc)) ~> (pc = "content")

\* A build over acyclic Components that returned a tree three levels deep.
C5_Witness ==
    /\ pc = "content"
    /\ Acyclic(doc)
    /\ \E t \in Trees(doc) : Depth(t) >= 3

\* C6 (as claimed): two conversions of the same document, one after the other,
\* return structurally identical documents (parameter trees compared without
\* the order of their children).
C6_SameOutputTwice ==
    Len(outs) >= 2 => OutView(outs[1]) = OutView(outs[2])

\* C7 (as claimed): when the converter has returned, the source document holds
\* exactly what it held before the call.
C7_SourceUnchanged ==
    (pc = "idle" /\ run >= 1) => doc = loaded

\* C9 (as claimed): the conversion of an empty document (no paths, no
\* components) has a "paths" key holding an empty map and a "components" key
\* holding a "schemas" key that is an empty map.
C9_EmptyDocumentKeys ==
    \A i \in 1..Len(outs) :
        (loaded.Paths = EmptyMap /\ loaded.Components = EmptyMap) =>
            /\ HasKey(outs[i], "paths")
            /\ outs[i]["paths"] = EmptyMap
            /\ HasKey(outs[i], "components")
            /\ HasKey(outs[i]["components"], "schemas")
            /\ outs[i]["components"]["schemas"] = EmptyMap


(***************************************************************************)
(* Vocabulary of the server properties                                     *)
(***************************************************************************)
\* The requests answered 200 by handleOpenAPIDocs / by handleSwaggerConfig.
Answered(route) ==
    { r \in DOMAIN reqs :
        /\ reqs[r].pc = "done"
        /\ reqs[r].status = 200
        /\ reqs[r].method = "GET"
        /\ RouteOf(RoutedPath(built, reqs[r].url)) = route }

\* The Go field of each bound that is a pointer, and its JSON key.
BoundKey ==
    [ MultipleOf |-> "multipleOf", Maximum |-> "maximum", Minimum |-> "minimum",
      MaxLength |-> "maxLength", MinLength |-> "minLength",
      MaxItems |-> "maxItems", MinItems |-> "minItems",
      MaxProperties |-> "maxProperties", MinProperties |-> "minProperties" ]

\* The Go field of each flag, and its JSON key.
FlagKey ==
    [ ExclusiveMaximum |-> "exclusiveMaximum", ExclusiveMinimum |-> "exclusiveMinimum",
      UniqueItems |-> "uniqueItems", Nullable |-> "nullable", ReadOnly |-> "readOnly",
      WriteOnly |-> "writeOnly", Deprecated |-> "deprecated" ]

\* Key k of out carries v.
Carries(out, k, v) == k \in DOMAIN out /\ out[k] = v

\* out carries the constraint attributes of schema, and those of its nested
\* properties: the flags with the source's value, every bound that is set with
\* the number it is set to, and pattern, required and enum with the source's
\* value; when emptyKept is FALSE an empty pattern, required or enum is
\* carried by the absence of the key instead.
RECURSIVE Preserves(_, _, _)
Preserves(schema, out, emptyKept) ==
    /\ \A f \in DOMAIN FlagKey : Carries(out, FlagKey[f], schema[f])
    /\ \A f \in DOMAIN BoundKey :
          IF IsNil(schema[f]) THEN BoundKey[f] \notin DOMAIN out
          ELSE Carries(out, BoundKey[f], schema[f])
    /\ IF emptyKept \/ schema.Pattern # "" THEN Carries(out, "pattern", schema.Pattern)
       ELSE "pattern" \notin DOMAIN out
    /\ IF emptyKept \/ schema.Required # <<>> THEN Carries(out, "required", schema.Required)
       ELSE "required" \notin DOMAIN out
    /\ IF emptyKept \/ schema.Enum # <<>> THEN Carries(out, "enum", schema.Enum)
       ELSE "enum" \notin DOMAIN out
    /\ IF IsNil(schema.Properties) THEN "properties" \notin DOMAIN out
       ELSE /\ "properties" \in DOMAIN out
            /\ DOMAIN out["properties"] = DOMAIN Deref(schema.Properties)
            /\ \A n \in DOMAIN Deref(schema.Properties) :
                  IF IsNil(Deref(schema.Properties)[n])
                  THEN DOMAIN out["properties"][n] = {}
                  ELSE Preserves(Deref(Deref(schema.Properties)[n]), out["properties"][n], emptyKept)

\* Every docs response carries every Components schema of the document the
\* handler was built with, under its name.
SchemasPreserved(emptyKept) ==
    \A r \in Answered("docs") :
        LET source == Deref(built.OpenAPI).Components.Schemas
            out == reqs[r].body["json"]["components"]["schemas"]
        IN  /\ DOMAIN out = DOMAIN source
            /\ \A name \in DOMAIN source : Preserves(source[name], out[name], emptyKept)

\* C8: once the handler is constructed, whatever requests are in flight or
\* answered, the Config (its SwagResources and its Document included) is what
\* construction left; every 200 response of /v3/api-docs is the conversion of
\* that Document and every swagger-config response lists those resources.
C8_RequestsOnlyRead ==
    constructed =>
        /\ config = built
        /\ \A r \in Answered("docs") :
              reqs[r].body = ("json" :> convertToOpenAPI3(Deref(built.OpenAPI), built))
        /\ \A r \in Answered("config") :
              reqs[r].body = ("json" :> [urls |-> built.SwagResources])

\* C8 witness: the second request has its swagger-config answer, listing the
\* resources the host configured, while the first is still inside
\* handleOpenAPIDocs.
C8_Witness ==
    /\ reqs[1].pc = "convert"
    /\ 2 \in Answered("config")
    /\ built.SwagResources = Ptr(CustomResources)
    /\ reqs[2].body["json"].urls = Ptr(CustomResources)

\* C10 as stated: every Components schema is in components.schemas under its
\* name with every constraint attribute present, an empty pattern, required
\* or enum included, recursively.
C10_EveryAttributePresent == SchemasPreserved(TRUE)

\* C10 amended: every Components schema is in components.schemas under its
\* name; the flags are always present, false included; a bound that is set is
\* present, 0 included; pattern, required and enum are present exactly when
\* they are not empty; recursively for nested properties.
C10_AttributesPresentUnlessEmpty == SchemasPreserved(FALSE)

\* C10 witness: a docs response for a schema whose nested property has every
\* bound set to 0, every flag false and an empty pattern, required and enum.
C10_Witness ==
    \E r \in Answered("docs") :
        /\ "Widget" \in DOMAIN Deref(built.OpenAPI).Components.Schemas
        /\ Deref(built.OpenAPI).Components.Schemas["Widget"] =
              FullSchema(Ptr(("name" :> Ptr(ZeroBoundsSchema)) @@ ("tag" :> Ptr(FullSchema(Nil)))))
        /\ LET nested == reqs[r].body["json"]["components"]["schemas"]["Widget"]["properties"]["name"]
           IN  /\ nested["maximum"] = Ptr(0)
               /\ nested["nullable"] = FALSE
               /\ "pattern" \notin DOMAIN nested


(***************************************************************************)
(* Requests for which no document can be obtained                          *)
(***************************************************************************)
\* The requests that go to handleOpenAPIDocs.
DocsRequests ==
    { r \in DOMAIN reqs :
        /\ reqs[r].pc # "none"
        /\ reqs[r].method = "GET"
        /\ RouteOf(RoutedPath(config, reqs[r].url)) = "docs" }

\* The answer of request r is what the route of r answers whatever else the
\* handler has been asked: the resources for swagger-config, the page for
\* /doc.html and /.
AnsweredNormally(r) ==
    /\ reqs[r].method # "GET" => reqs[r].status = 405
    /\ (reqs[r].method = "GET" /\ RouteOf(RoutedPath(config, reqs[r].url)) = "config") =>
          /\ reqs[r].status = 200
          /\ reqs[r].body = ("json" :> [urls |-> config.SwagResources])
    /\ (reqs[r].method = "GET" /\ reqs[r].url \in {DocHtmlPath, RootPath}
          /\ config.RelativePath = <<>>) =>
          /\ reqs[r].status = 200
          /\ reqs[r].body = ("file" :> <<"doc", ".html">>)

ServersAsDeclared(declared, out) ==
    /\ Len(out) >= 1
    /\ IF Len(declared) = 0
       THEN Len(out) = 1 /\ out[1]["url"] = "http://localhost:8000"
       ELSE /\ Len(out) = Len(declared)
            /\ \A i \in 1..Len(declared) :
                  /\ out[i]["url"] = declared[i].url
                  /\ out[i]["description"] = declared[i].description

\* The servers an OpenAPI3 document of knife4g.go declares.
DeclaredIn(openapi) ==
    [ i \in 1..Len(openapi.Servers) |->
        [url |-> openapi.Servers[i].URL, description |-> openapi.Servers[i].Description] ]

\* The part of C12 that is about convertToOpenAPI3.
ServersOfOpenAPI3 ==
    \A r \in Answered("docs") :
        ServersAsDeclared(DeclaredIn(Deref(built.OpenAPI)), reqs[r].body["json"]["servers"])

\* C12 (as claimed): the servers list of every converted document is not
\* empty; it is one synthesized default when the source declares no server and
\* otherwise one entry per declared server, in the declared order, with that
\* server's url and description.
C12_ServersAsDeclared ==
    /\ \A i \in 1..Len(outs) : ServersAsDeclared(OpenApiContent.servers, outs[i]["servers"])
    /\ ServersOfOpenAPI3


(***************************************************************************)
(* Description tags                                                        *)
(***************************************************************************)
\* converted carries a description key exactly when the parser reports a
\* description tag in text, and then with the tag's value.
DescriptionFollowsTag(text, converted) ==
    IF HasTag(Parse(text), "description")
    THEN Carries(converted, "description", GetString(Parse(text), "description"))
    ELSE "description" \notin DOMAIN converted

\* The operations of a path item, by the key they are converted under.
OperationsOf(pathItem) ==
    Opt(~IsNil(pathItem.Get), "get", pathItem.Get)
      @@ Opt(~IsNil(pathItem.Post), "post", pathItem.Post)
      @@ Opt(~IsNil(pathItem.Put), "put", pathItem.Put)
      @@ Opt(~IsNil(pathItem.Delete), "delete", pathItem.Delete)
      @@ Opt(~IsNil(pathItem.Patch), "patch", pathItem.Patch)

\* C13: the converted info block and every converted operation carry a
\* description key exactly when the tag parser reports a description tag in
\* the source text, with that tag's value; with plain text, empty text or a
\* malformed tag there is no description key, and the request is still
\* answered 200.
C13_DescriptionIffTag ==
    /\ \A r \in DocsRequests :
          ~IsNil(config.OpenAPI) =>
              /\ reqs[r].pc \in {"handler", "docs", "convert", "done"}
              /\ reqs[r].pc = "done" => reqs[r].status = 200
    /\ \A r \in Answered("docs") :
          LET source == Deref(built.OpenAPI)
              out == reqs[r].body["json"]
          IN  /\ DescriptionFollowsTag(source.Info.Description, out["info"])
              /\ DOMAIN out["paths"] = DOMAIN source.Paths
              /\ \A path \in DOMAIN source.Paths :
                    /\ DOMAIN out["paths"][path] = DOMAIN OperationsOf(source.Paths[path])
                    /\ \A method \in DOMAIN OperationsOf(source.Paths[path]) :
                          DescriptionFollowsTag(
                              Deref(OperationsOf(source.Paths[path])[method]).Description,
                              out["paths"][path][method])

\* C13 witness: a docs answer for a document whose info text holds a
\* description tag between plain text, and so carries the tag's value, and
\* whose operation has an empty description, and so no description key.
C13_Witness ==
    \E r \in Answered("docs") :
        /\ Deref(built.OpenAPI).Info.Description =
              << TextLine("intro"), TagLine("description", "Widget API"), TextLine("rest") >>
        /\ reqs[r].body["json"]["info"]["description"] = "Widget API"
        /\ Deref(Deref(built.OpenAPI).Paths["/widgets"].Post).Description = <<>>
        /\ "description" \notin DOMAIN reqs[r].body["json"]["paths"]["/widgets"]["post"]


(***************************************************************************)
(* RelativePath                                                            *)
(***************************************************************************)
\* The file a request path names once the RelativePath prefix is removed
\* (the page for the root).
NamedBelowPrefix(cfg, url) ==
    IF TrimPrefix(TrimPrefix(url, cfg.RelativePath), <<"/">>) = <<>>
    THEN <<"doc", ".html">>
    ELSE TrimPrefix(TrimPrefix(url, cfg.RelativePath), <<"/">>)

\* C14 (as claimed): whatever RelativePath is configured, a GET of
\* RelativePath + "/doc.html" or RelativePath + "/" is answered with the
\* embedded doc.html, and a file served is the one the request path names
\* with the RelativePath prefix removed.
C14_RelativePathIsPrefix ==
    \A r \in DOMAIN reqs :
        (reqs[r].pc = "done" /\ reqs[r].method = "GET") =>
            /\ reqs[r].url \in {config.RelativePath \o DocHtmlPath, config.RelativePath \o RootPath} =>
                  /\ reqs[r].status = 200
                  /\ reqs[r].body = ("file" :> <<"doc", ".html">>)
            /\ "file" \in DOMAIN reqs[r].body =>
                  reqs[r].body["file"] = NamedBelowPrefix(config, reqs[r].url)

====
